---- MODULE Spec2Model ----
(***************************************************************************)
(* Model of the collective-tree-exploration visualiser (src/script.js,     *)
(* src/unnamed/part_000): the globals pyodide, result, currentStep and     *)
(* isDisplayRobotLabels, the handlers init, run, next, prev,               *)
(* toggleRobotLabels, downloadSVG and downloadAllSVG, the pure function    *)
(* makeDot, and the suspension points of the async handlers (the engine    *)
(* call of run and every call into the layout engine).                     *)
(***************************************************************************)
EXTENDS Integers, Sequences, FiniteSets, TLC

(* ------------------------------ bounds --------------------------------- *)
\* number of engine responses run() receives in one behaviour
MaxRuns == 2
\* number of renderTree() calls whose layout-engine call is in flight
MaxInFlight == 2
\* number of export commands (downloadSVG, downloadAllSVG) in flight
MaxExports == 1
\* size of the generated traces of the description-builder specification
MaxNodes == 2

(* --------------------------- JavaScript values ------------------------- *)
\* `let result;` / `let currentStep;` : the value undefined
Undefined == [kind |-> "undefined"]
NoStep == -1

IsNum(x) == x # NoStep

\* String(number) and template-literal interpolation of a number
String(x) == IF IsNum(x) THEN ToString(x) ELSE "NaN"

RECURSIVE JoinFrom(_, _)
JoinFrom(arr, i) ==
    IF i > Len(arr) THEN ""
    ELSE IF i = Len(arr) THEN ToString(arr[i])
    ELSE ToString(arr[i]) \o "," \o JoinFrom(arr, i + 1)

\* Array.prototype.toString as used by `${array}`
ArrayToString(arr) == JoinFrom(arr, 1)

(* ---------------------- engine responses (run, line 20) ---------------- *)
StepState(rob, trav, nc) ==
    [robotsInNode |-> rob, traversed |-> trav, nodeCase |-> nc]

Trace(hasTree, n, edges, steps) ==
    [kind |-> "object", hasTree |-> hasTree, n |-> n, edges |-> edges,
     steps |-> steps]

\* a well-formed trace: 2 nodes, 2 steps
TraceA ==
    Trace(TRUE, 2, << <<0, 1>> >>,
          << StepState(<< <<1, 2>>, <<>> >>, <<TRUE, FALSE>>, <<3, 2>>),
             StepState(<< <<1>>, <<2>> >>, <<TRUE, TRUE>>, <<1, 3>>) >>)

\* a well-formed trace: 3 nodes, 3 steps
TraceB ==
    Trace(TRUE, 3, << <<0, 1>>, <<1, 2>> >>,
          << StepState(<< <<1>>, <<>>, <<>> >>, <<TRUE, FALSE, FALSE>>, <<3, 2, 2>>),
             StepState(<< <<>>, <<1>>, <<>> >>, <<TRUE, TRUE, FALSE>>, <<1, 3, 2>>),
             StepState(<< <<>>, <<>>, <<1>> >>, <<TRUE, TRUE, TRUE>>, <<1, 1, 3>>) >>)

\* a well-formed trace: 2 nodes, 1 step
TraceC ==
    Trace(TRUE, 2, << <<0, 1>> >>,
          << StepState(<< <<1>>, <<2>> >>, <<TRUE, TRUE>>, <<3, 3>>) >>)

\* malformed: `steps` is empty
BadEmpty == Trace(TRUE, 2, << <<0, 1>> >>, << >>)

\* malformed: steps[1].traversed has length 2 while tree.n = 3
BadShort ==
    Trace(TRUE, 3, << <<0, 1>>, <<1, 2>> >>,
          << StepState(<< <<1>>, <<>>, <<>> >>, <<TRUE, FALSE, FALSE>>, <<3, 2, 2>>),
             StepState(<< <<>>, <<1>>, <<>> >>, <<TRUE, TRUE>>, <<1, 3, 2>>) >>)

\* malformed: an edge endpoint outside [0, n)
BadEdge ==
    Trace(TRUE, 2, << <<0, 5>> >>,
          << StepState(<< <<1>>, <<>> >>, <<TRUE, FALSE>>, <<3, 2>>) >>)

\* malformed: the required field `tree` is absent
BadNoTree ==
    Trace(FALSE, 0, << >>,
          << StepState(<< <<1>>, <<>> >>, <<TRUE, FALSE>>, <<3, 2>>) >>)

\* the string the engine call resolves with; value is what JSON.parse yields
Raw(parses, value) == [kind |-> "string", parses |-> parses, value |-> value]

EngineResponses ==
    { Raw(TRUE, t) : t \in {TraceA, TraceB, TraceC, BadEmpty, BadShort, BadEdge,
                            BadNoTree} }
    \cup { Raw(FALSE, Undefined) }

IsObject(res) == res.kind = "object"

\* result.steps.length where it is defined
StepsLength(res) == Len(res.steps)

(* ------------------------------- makeDot ------------------------------- *)
\* a property access on undefined that makes makeDot(step) throw a TypeError
MakeDotThrows(res, labels, step) ==
    \/ ~IsObject(res)
    \/ ~res.hasTree
    \/ ~IsNum(step)
    \/ step >= Len(res.steps)
    \/ /\ ~labels
       /\ \E node \in 0 .. (res.n - 1) :
              node >= Len(res.steps[step + 1].robotsInNode)

\* `${node}\nrobots: ${...}`
NodeLabel(st, labels, node) ==
    ToString(node) \o "\nrobots: " \o
    ( IF labels
        THEN "{" \o ( IF node < Len(st.robotsInNode)
                        THEN ArrayToString(st.robotsInNode[node + 1])
                        ELSE "undefined" ) \o "}"
        ELSE ToString(Len(st.robotsInNode[node + 1])) )

\* result.steps[step].traversed[node] as a condition
Traversed(st, node) == node < Len(st.traversed) /\ st.traversed[node + 1]

\* { 1: "green", 2: "red", 3: "blue" }[nodeCase]
StatusColor(nc) ==
    CASE nc = 1 -> "green"
      [] nc = 2 -> "red"
      [] nc = 3 -> "blue"
      [] OTHER  -> "undefined"

\* as NodeColor, with the status colour given to untraversed nodes too
NodeColorIgnoresTraversed(st, node) ==
    IF node < Len(st.nodeCase) THEN StatusColor(st.nodeCase[node + 1])
                               ELSE "undefined"

NodeColor(st, node) ==
    IF Traversed(st, node)
      THEN ( IF node < Len(st.nodeCase) THEN StatusColor(st.nodeCase[node + 1])
                                        ELSE "undefined" )
      ELSE "black"

NodeStyle(st, node) == IF Traversed(st, node) THEN "solid" ELSE "dashed"

\* as NodeStatement, with every node drawn solid when robot ids are displayed
NodeStatementStyledByMode(st, labels, node) ==
    [id |-> node, label |-> NodeLabel(st, labels, node), fontsize |-> 10,
     color |-> NodeColor(st, node),
     style |-> IF labels THEN "solid" ELSE NodeStyle(st, node)]

NodeStatement(st, labels, node) ==
    [id |-> node, label |-> NodeLabel(st, labels, node), fontsize |-> 10,
     color |-> NodeColor(st, node), style |-> NodeStyle(st, node)]

\* as MakeDotOf, with an edge statement only where both endpoints are traversed
MakeDotOfTraversedEdges(res, labels, step) ==
    [nodes |-> [i \in 1 .. res.n |->
                   NodeStatement(res.steps[step + 1], labels, i - 1)],
     edges |-> [e \in 1 .. Len(SelectSeq(res.edges,
                                LAMBDA ed : /\ Traversed(res.steps[step + 1], ed[1])
                                            /\ Traversed(res.steps[step + 1], ed[2]))) |->
                   [from |-> res.edges[e][1], to |-> res.edges[e][2]]]]

\* the description: node statements in node order, then the edge statements
MakeDotOf(res, labels, step) ==
    [nodes |-> [i \in 1 .. res.n |->
                   NodeStatement(res.steps[step + 1], labels, i - 1)],
     edges |-> [e \in 1 .. Len(res.edges) |->
                   [from |-> res.edges[e][1], to |-> res.edges[e][2]]]]

(* ----------------------- layout engine, serializer --------------------- *)
\* viz.renderSVGElement(dot), when the engine accepts the description
Artifact(dot) == [svg |-> dot]

\* new XMLSerializer().serializeToString(svg)
Serialize(element) == [xml |-> element.svg]

\* `step-${index + 1}.svg`
StepFileName(index) == "step-" \o ToString(index + 1) \o ".svg"

(* -------------------------------- state -------------------------------- *)
VARIABLES
    pyodide,              \* TRUE once `pyodide = await loadPyodide()` has resumed
    pendingRuns,          \* engine calls of run() still in flight
    result,               \* the global `result`
    currentStep,          \* the global `currentStep` (NoStep while undefined)
    isDisplayRobotLabels, \* the global `isDisplayRobotLabels`
    resultHidden,         \* class "hidden" on .visualization-result
    onkeydown,            \* TRUE once run() has installed document.onkeydown
    renders,              \* renderTree() calls awaiting the layout engine, in issue order
    treeContainer,        \* children of .tree-container
    stepElement,          \* innerHTML of .step
    alerted,              \* text of the open alert() dialog, "" when none
    lastError,            \* the last exception that left a handler uncaught
    exports,              \* downloadSVG / downloadAllSVG calls in flight
    saved,                \* the last file handed to the user
    gen,                  \* history: number of times run() has assigned `result`
    painted,              \* history: the renderTree() call that last wrote the container
    exportFailedAt,       \* history: step index of the last failed batch-export render
    cameFrom              \* history: the index the last navigation command moved the
                          \* cursor from, if it was a next(); NoStep otherwise

\* The records carry history fields next to the program's data: of a render
\* in flight, the step and the value of gen it was issued with and whether a
\* later-issued render has written the container since (step, gen,
\* overtaken); of an export, the trace, mode and step it was issued with and
\* whether its renders completed out of step order (res, labels, step,
\* reordered), copied to saved.

vars == << pyodide, pendingRuns, result, currentStep,
           isDisplayRobotLabels, resultHidden, onkeydown, renders,
           treeContainer, stepElement, alerted, lastError, exports, saved,
           gen, painted, exportFailedAt, cameFrom >>

\* the variables no navigation or render step touches
pageVars == << pyodide, pendingRuns, resultHidden, onkeydown >>
exportVars == << exports, saved, exportFailedAt >>
displayVars == << treeContainer, stepElement, painted >>

NoError == [kind |-> "none", op |-> "none", index |-> NoStep]

\* an uncaught exception of handler op; no handler attaches a step index to it
Error(kind, op) == [kind |-> kind, op |-> op, index |-> NoStep]

NoFile == [kind |-> "none", name |-> "", files |-> {}, res |-> Undefined,
           labels |-> FALSE, step |-> NoStep, reordered |-> FALSE]

NothingPainted == [step |-> NoStep, overtaken |-> FALSE, old |-> FALSE]

Init ==
    /\ pyodide = FALSE
    /\ pendingRuns = 0
    /\ result = Undefined
    /\ currentStep = NoStep
    /\ isDisplayRobotLabels = FALSE
    /\ resultHidden = TRUE
    /\ onkeydown = FALSE
    /\ renders = << >>
    /\ treeContainer = << >>
    /\ stepElement = ""
    /\ alerted = ""
    /\ lastError = NoError
    /\ exports = << >>
    /\ saved = NoFile
    /\ gen = 0
    /\ painted = NothingPainted
    /\ exportFailedAt = NoStep
    /\ cameFrom = NoStep

\* alert() is modal: no handler and no continuation runs while it is open
Idle == alerted = ""

RemoveAt(seq, i) == SubSeq(seq, 1, i - 1) \o SubSeq(seq, i + 1, Len(seq))

(* ------------------------------ renderTree ----------------------------- *)
\* renderTree() up to its await: makeDot(currentStep) is evaluated with the
\* values res, labels, step the caller has just written, then the layout
\* engine call is in flight
RenderTreeCall(res, labels, step, g, op) ==
    IF MakeDotThrows(res, labels, step)
      THEN /\ renders' = renders
           /\ lastError' = Error("TypeError", op)
      ELSE /\ Len(renders) < MaxInFlight
           /\ renders' = Append(renders,
                  [dot |-> MakeDotOf(res, labels, step), step |-> step,
                   gen |-> g, overtaken |-> FALSE])
           /\ lastError' = lastError

\* as RenderResolve, had line 81 (treeElement.innerHTML = "") been left out
RenderResolveAppend(i) ==
    /\ Idle
    /\ i \in 1 .. Len(renders)
    /\ treeContainer' = Append(treeContainer, Artifact(renders[i].dot))
    /\ stepElement' = String(IF IsNum(currentStep) THEN currentStep + 1 ELSE NoStep)
    /\ painted' = [step |-> renders[i].step,
                   overtaken |-> renders[i].overtaken,
                   old |-> renders[i].gen # gen]
    /\ renders' = RemoveAt([j \in 1 .. Len(renders) |->
                              IF j < i THEN [renders[j] EXCEPT !.overtaken = TRUE]
                                       ELSE renders[j]], i)
    /\ UNCHANGED << pageVars, exportVars, result, currentStep,
                    isDisplayRobotLabels, alerted, lastError, gen, cameFrom >>

\* as RenderResolve, had the cursor been moved to the rendered step when the
\* render completes
RenderResolveMovesCursor(i) ==
    /\ Idle
    /\ i \in 1 .. Len(renders)
    /\ currentStep' = renders[i].step
    /\ treeContainer' = << Artifact(renders[i].dot) >>
    /\ stepElement' = String(renders[i].step + 1)
    /\ painted' = [step |-> renders[i].step,
                   overtaken |-> renders[i].overtaken,
                   old |-> renders[i].gen # gen]
    /\ renders' = RemoveAt([j \in 1 .. Len(renders) |->
                              IF j < i THEN [renders[j] EXCEPT !.overtaken = TRUE]
                                       ELSE renders[j]], i)
    /\ UNCHANGED << pageVars, exportVars, result,
                    isDisplayRobotLabels, alerted, lastError, gen, cameFrom >>

\* renderTree() after its await, the layout engine having produced an element
RenderResolve(i) ==
    /\ Idle
    /\ i \in 1 .. Len(renders)
    /\ treeContainer' = << Artifact(renders[i].dot) >>
    /\ stepElement' = String(IF IsNum(currentStep) THEN currentStep + 1 ELSE NoStep)
    /\ painted' = [step |-> renders[i].step,
                   overtaken |-> renders[i].overtaken,
                   old |-> renders[i].gen # gen]
    /\ renders' = RemoveAt([j \in 1 .. Len(renders) |->
                              IF j < i THEN [renders[j] EXCEPT !.overtaken = TRUE]
                                       ELSE renders[j]], i)
    /\ UNCHANGED << pageVars, exportVars, result, currentStep,
                    isDisplayRobotLabels, alerted, lastError, gen >>
    /\ UNCHANGED cameFrom

\* as RenderReject, had the container been cleared before the await
RenderRejectBlank(i) ==
    /\ Idle
    /\ i \in 1 .. Len(renders)
    /\ renders' = RemoveAt(renders, i)
    /\ lastError' = Error("LayoutError", "renderTree")
    /\ treeContainer' = << >>
    /\ UNCHANGED << pageVars, exportVars, stepElement, painted, result,
                    currentStep, isDisplayRobotLabels, alerted, gen >>
    /\ UNCHANGED cameFrom

\* renderTree() after its await, the layout engine having rejected the description
RenderReject(i) ==
    /\ Idle
    /\ i \in 1 .. Len(renders)
    /\ renders' = RemoveAt(renders, i)
    /\ lastError' = Error("LayoutError", "renderTree")
    /\ UNCHANGED << pageVars, exportVars, displayVars, result, currentStep,
                    isDisplayRobotLabels, alerted, gen >>
    /\ UNCHANGED cameFrom

(* --------------------------------- init -------------------------------- *)
\* init() at the resumption of `pyodide = await loadPyodide()`; what follows
\* only loads the engine's code and hides the spinner
InitLoadPyodide ==
    /\ Idle
    /\ ~pyodide
    /\ pyodide' = TRUE
    /\ UNCHANGED << pendingRuns, result, currentStep,
                    isDisplayRobotLabels, resultHidden, onkeydown, renders,
                    displayVars, alerted, lastError, exportVars, gen >>
    /\ UNCHANGED cameFrom

(* --------------------------------- run --------------------------------- *)
\* run() up to `await pyodide.runPythonAsync(...)`
RunStart ==
    /\ Idle
    /\ gen + pendingRuns < MaxRuns
    /\ pendingRuns' = IF pyodide THEN pendingRuns + 1 ELSE pendingRuns
    /\ UNCHANGED << pyodide, result, currentStep,
                    isDisplayRobotLabels, resultHidden, onkeydown, renders,
                    displayVars, alerted, lastError, exportVars, gen >>
    /\ UNCHANGED cameFrom

\* the engine call raises: run() ends before anything is assigned
RunReject ==
    /\ Idle
    /\ pendingRuns > 0
    /\ pendingRuns' = pendingRuns - 1
    /\ lastError' = Error("PythonError", "run")
    /\ UNCHANGED << pyodide, result, currentStep,
                    isDisplayRobotLabels, resultHidden, onkeydown, renders,
                    displayVars, alerted, exportVars, gen >>
    /\ UNCHANGED cameFrom

\* as RunResolve, had the cursor reset been left to a later continuation
RunResolveNoReset(raw) ==
    /\ Idle
    /\ pendingRuns > 0
    /\ pendingRuns' = pendingRuns - 1
    /\ gen' = gen + 1
    /\ IF ~raw.parses
         THEN /\ result' = raw
              /\ lastError' = Error("SyntaxError", "run")
              /\ UNCHANGED << currentStep, resultHidden, onkeydown, renders >>
         ELSE /\ result' = raw.value
              /\ currentStep' = IF IsNum(currentStep) THEN currentStep ELSE 0
              /\ resultHidden' = FALSE
              /\ onkeydown' = TRUE
              /\ RenderTreeCall(raw.value, isDisplayRobotLabels, 0, gen + 1, "run")
    /\ UNCHANGED << pyodide, isDisplayRobotLabels,
                    displayVars, alerted, exportVars >>
    /\ cameFrom' = NoStep

\* run() from the resumption of line 20 to the await inside renderTree()
RunResolve(raw) ==
    /\ Idle
    /\ pendingRuns > 0
    /\ pendingRuns' = pendingRuns - 1
    /\ gen' = gen + 1
    /\ IF ~raw.parses
         THEN /\ result' = raw
              /\ lastError' = Error("SyntaxError", "run")
              /\ UNCHANGED << currentStep, resultHidden, onkeydown, renders >>
         ELSE /\ result' = raw.value
              /\ currentStep' = 0
              /\ resultHidden' = FALSE
              /\ onkeydown' = TRUE
              /\ RenderTreeCall(raw.value, isDisplayRobotLabels, 0, gen + 1, "run")
    /\ UNCHANGED << pyodide, isDisplayRobotLabels,
                    displayVars, alerted, exportVars >>
    /\ cameFrom' = NoStep

(* ------------------------------ navigation ----------------------------- *)
\* as next, with the bound compared by <= instead of <
nextOffByOne ==
    /\ Idle
    /\ IF result = Undefined
         THEN UNCHANGED << currentStep, renders, alerted, lastError >>
         ELSE IF ~IsObject(result)
           THEN /\ lastError' = Error("TypeError", "next")
                /\ UNCHANGED << currentStep, renders, alerted >>
           ELSE IF IsNum(currentStep) /\ currentStep <= StepsLength(result) - 1
             THEN /\ currentStep' = currentStep + 1
                  /\ RenderTreeCall(result, isDisplayRobotLabels,
                                    currentStep + 1, gen, "next")
                  /\ UNCHANGED alerted
             ELSE /\ alerted' = "Exploration is finished!"
                  /\ UNCHANGED << currentStep, renders, lastError >>
    /\ UNCHANGED << pageVars, exportVars, displayVars, result,
                    isDisplayRobotLabels, gen >>
    /\ cameFrom' = IF currentStep' # currentStep THEN currentStep ELSE NoStep

next ==
    /\ Idle
    /\ IF result = Undefined
         THEN UNCHANGED << currentStep, renders, alerted, lastError >>
         ELSE IF ~IsObject(result)
           THEN /\ lastError' = Error("TypeError", "next")
                /\ UNCHANGED << currentStep, renders, alerted >>
           ELSE IF IsNum(currentStep) /\ currentStep < StepsLength(result) - 1
             THEN /\ currentStep' = currentStep + 1
                  /\ RenderTreeCall(result, isDisplayRobotLabels,
                                    currentStep + 1, gen, "next")
                  /\ UNCHANGED alerted
             ELSE /\ alerted' = "Exploration is finished!"
                  /\ UNCHANGED << currentStep, renders, lastError >>
    /\ UNCHANGED << pageVars, exportVars, displayVars, result,
                    isDisplayRobotLabels, gen >>
    /\ cameFrom' = IF currentStep' # currentStep THEN currentStep ELSE NoStep

\* as prev, without the early return of line 99
prevUnguarded ==
    /\ Idle
    /\ IF IsNum(currentStep) /\ currentStep > 0
         THEN /\ currentStep' = currentStep - 1
              /\ RenderTreeCall(result, isDisplayRobotLabels,
                                currentStep - 1, gen, "prev")
              /\ UNCHANGED alerted
         ELSE /\ alerted' = "This is the first step!"
              /\ UNCHANGED << currentStep, renders, lastError >>
    /\ UNCHANGED << pageVars, exportVars, displayVars, result,
                    isDisplayRobotLabels, gen >>
    /\ cameFrom' = NoStep

\* as prev, going back to the first step instead of one step
prevToFirst ==
    /\ Idle
    /\ IF result = Undefined
         THEN UNCHANGED << currentStep, renders, alerted, lastError >>
         ELSE IF IsNum(currentStep) /\ currentStep > 0
           THEN /\ currentStep' = 0
                /\ RenderTreeCall(result, isDisplayRobotLabels, 0, gen, "prev")
                /\ UNCHANGED alerted
           ELSE /\ alerted' = "This is the first step!"
                /\ UNCHANGED << currentStep, renders, lastError >>
    /\ UNCHANGED << pageVars, exportVars, displayVars, result,
                    isDisplayRobotLabels, gen >>
    /\ cameFrom' = NoStep

prev ==
    /\ Idle
    /\ IF result = Undefined
         THEN UNCHANGED << currentStep, renders, alerted, lastError >>
         ELSE IF IsNum(currentStep) /\ currentStep > 0
           THEN /\ currentStep' = currentStep - 1
                /\ RenderTreeCall(result, isDisplayRobotLabels,
                                  currentStep - 1, gen, "prev")
                /\ UNCHANGED alerted
           ELSE /\ alerted' = "This is the first step!"
                /\ UNCHANGED << currentStep, renders, lastError >>
    /\ UNCHANGED << pageVars, exportVars, displayVars, result,
                    isDisplayRobotLabels, gen >>
    /\ cameFrom' = NoStep

toggleRobotLabels ==
    /\ Idle
    /\ isDisplayRobotLabels' = ~isDisplayRobotLabels
    /\ RenderTreeCall(result, ~isDisplayRobotLabels, currentStep, gen,
                      "toggleRobotLabels")
    /\ UNCHANGED << pageVars, exportVars, displayVars, result, currentStep,
                    alerted, gen >>
    /\ UNCHANGED cameFrom

\* the user closes the alert() dialog
DismissAlert ==
    /\ alerted # ""
    /\ alerted' = ""
    /\ UNCHANGED << pageVars, exportVars, displayVars, result, currentStep,
                    isDisplayRobotLabels, renders, lastError, gen >>
    /\ UNCHANGED cameFrom

(* ------------------------------- exports ------------------------------- *)
\* a promise of the layout-engine call of an export: pending or fulfilled
PendingValue == [done |-> FALSE]
Fulfilled(v) == [done |-> TRUE, value |-> v]

\* the first position of the result array not yet filled
FirstPending(values) ==
    CHOOSE i \in 1 .. Len(values) :
        ~values[i].done /\ \A j \in 1 .. (i - 1) : values[j].done

\* as PromiseAllFulfil, with the values collected in completion order
PromiseAllPush(values, index, v) ==
    [values EXCEPT ![FirstPending(values)] = Fulfilled(v)]

\* Promise.all: the value of the promise at position index goes to position
\* index of the result array
PromiseAllFulfil(values, index, v) ==
    [values EXCEPT ![index + 1] = Fulfilled(v)]

\* zip.file(name, data)
ZipFile(zip, name, data) ==
    { f \in zip : f.name # name } \cup { [name |-> name, data |-> data] }

RECURSIVE ZipForEach(_, _, _)
\* svgString.forEach((svg, index) => zip.file(`step-${index + 1}.svg`, svg))
ZipForEach(zip, svgString, index) ==
    IF index >= Len(svgString) THEN zip
    ELSE ZipForEach(ZipFile(zip, StepFileName(index), svgString[index + 1].value),
                    svgString, index + 1)

\* the export call in flight at position e
Export(e) == exports[e]

\* downloadSVG() up to its await
downloadSVG ==
    /\ Idle
    /\ IF MakeDotThrows(result, isDisplayRobotLabels, currentStep)
         THEN /\ lastError' = Error("TypeError", "downloadSVG")
              /\ UNCHANGED exports
         ELSE /\ Len(exports) < MaxExports
              /\ exports' = Append(exports,
                     [op |-> "downloadSVG", stage |-> "render",
                      dots |-> << MakeDotOf(result, isDisplayRobotLabels, currentStep) >>,
                      waiting |-> {0}, reordered |-> FALSE,
                      svgString |-> << PendingValue >>, zip |-> {},
                      res |-> result, labels |-> isDisplayRobotLabels,
                      step |-> currentStep])
              /\ UNCHANGED lastError
    /\ UNCHANGED << pageVars, displayVars, result, currentStep,
                    isDisplayRobotLabels, renders, alerted, saved,
                    exportFailedAt, gen >>
    /\ UNCHANGED cameFrom

\* as DownloadResolve, had makeDot(currentStep) been evaluated after the await
DownloadResolveLate(e) ==
    /\ Idle
    /\ e \in 1 .. Len(exports)
    /\ Export(e).op = "downloadSVG"
    /\ ~MakeDotThrows(result, isDisplayRobotLabels, currentStep)
    /\ saved' = [kind |-> "svg", name |-> "tree.svg",
                 files |-> { [name |-> "tree.svg",
                              data |-> Serialize(Artifact(
                                  MakeDotOf(result, isDisplayRobotLabels,
                                            currentStep)))] },
                 res |-> Export(e).res, labels |-> Export(e).labels,
                 step |-> Export(e).step, reordered |-> Export(e).reordered]
    /\ exports' = RemoveAt(exports, e)
    /\ UNCHANGED << pageVars, displayVars, result, currentStep,
                    isDisplayRobotLabels, renders, alerted, lastError,
                    exportFailedAt, gen, cameFrom >>

\* downloadSVG() after its await: serialise, build the link, click it
DownloadResolve(e) ==
    /\ Idle
    /\ e \in 1 .. Len(exports)
    /\ Export(e).op = "downloadSVG"
    /\ saved' = [kind |-> "svg", name |-> "tree.svg",
                 files |-> { [name |-> "tree.svg",
                              data |-> Serialize(Artifact(Export(e).dots[1]))] },
                 res |-> Export(e).res, labels |-> Export(e).labels,
                 step |-> Export(e).step, reordered |-> Export(e).reordered]
    /\ exports' = RemoveAt(exports, e)
    /\ UNCHANGED << pageVars, displayVars, result, currentStep,
                    isDisplayRobotLabels, renders, alerted, lastError,
                    exportFailedAt, gen >>
    /\ UNCHANGED cameFrom

DownloadReject(e) ==
    /\ Idle
    /\ e \in 1 .. Len(exports)
    /\ Export(e).op = "downloadSVG"
    /\ exports' = RemoveAt(exports, e)
    /\ lastError' = Error("LayoutError", "downloadSVG")
    /\ UNCHANGED << pageVars, displayVars, result, currentStep,
                    isDisplayRobotLabels, renders, alerted, saved,
                    exportFailedAt, gen >>
    /\ UNCHANGED cameFrom

\* downloadAllSVG() up to `await Promise.all(...)`: every callback of the map
\* runs to its own await, so all descriptions are built here
downloadAllSVG ==
    /\ Idle
    /\ IF \/ ~IsObject(result)
          \/ \E index \in 0 .. (StepsLength(result) - 1) :
                 MakeDotThrows(result, isDisplayRobotLabels, index)
         THEN /\ lastError' = Error("TypeError", "downloadAllSVG")
              /\ UNCHANGED exports
         ELSE /\ Len(exports) < MaxExports
              /\ exports' = Append(exports,
                     [op |-> "downloadAllSVG", stage |-> "render",
                      dots |-> [i \in 1 .. StepsLength(result) |->
                                   MakeDotOf(result, isDisplayRobotLabels, i - 1)],
                      waiting |-> 0 .. (StepsLength(result) - 1),
                      reordered |-> FALSE,
                      svgString |-> [i \in 1 .. StepsLength(result) |-> PendingValue],
                      zip |-> {},
                      res |-> result, labels |-> isDisplayRobotLabels,
                      step |-> currentStep])
              /\ UNCHANGED lastError
    /\ UNCHANGED << pageVars, displayVars, result, currentStep,
                    isDisplayRobotLabels, renders, alerted, saved,
                    exportFailedAt, gen >>
    /\ UNCHANGED cameFrom

\* as AllRenderResolve, had makeDot(index) been evaluated after the await
AllRenderResolveLate(e, index) ==
    /\ Idle
    /\ e \in 1 .. Len(exports)
    /\ Export(e).op = "downloadAllSVG"
    /\ Export(e).stage = "render"
    /\ index \in Export(e).waiting
    /\ ~MakeDotThrows(result, isDisplayRobotLabels, index)
    /\ exports' = [exports EXCEPT
                      ![e].waiting = @ \ {index},
                      ![e].reordered =
                          @ \/ \E other \in Export(e).waiting : other < index,
                      ![e].svgString =
                          PromiseAllFulfil(@, index,
                              Serialize(Artifact(
                                  MakeDotOf(result, isDisplayRobotLabels, index))))]
    /\ UNCHANGED << pageVars, displayVars, result, currentStep,
                    isDisplayRobotLabels, renders, alerted, lastError, saved,
                    exportFailedAt, gen, cameFrom >>

\* the layout-engine call of step index completes inside the map callback
AllRenderResolve(e, index) ==
    /\ Idle
    /\ e \in 1 .. Len(exports)
    /\ Export(e).op = "downloadAllSVG"
    /\ Export(e).stage = "render"
    /\ index \in Export(e).waiting
    /\ exports' = [exports EXCEPT
                      ![e].waiting = @ \ {index},
                      ![e].reordered =
                          @ \/ \E other \in Export(e).waiting : other < index,
                      ![e].svgString =
                          PromiseAllFulfil(@, index,
                              Serialize(Artifact(Export(e).dots[index + 1])))]
    /\ UNCHANGED << pageVars, displayVars, result, currentStep,
                    isDisplayRobotLabels, renders, alerted, lastError, saved,
                    exportFailedAt, gen >>
    /\ UNCHANGED cameFrom

\* the layout-engine call of step index fails: Promise.all rejects and
\* downloadAllSVG() ends with that rejection
AllRenderReject(e, index) ==
    /\ Idle
    /\ e \in 1 .. Len(exports)
    /\ Export(e).op = "downloadAllSVG"
    /\ Export(e).stage = "render"
    /\ index \in Export(e).waiting
    /\ exports' = RemoveAt(exports, e)
    /\ lastError' = Error("LayoutError", "downloadAllSVG")
    /\ exportFailedAt' = index
    /\ UNCHANGED << pageVars, displayVars, result, currentStep,
                    isDisplayRobotLabels, renders, alerted, saved, gen >>
    /\ UNCHANGED cameFrom

\* Promise.all has resolved: fill the archive, up to `await zip.generateAsync`
AllZip(e) ==
    /\ Idle
    /\ e \in 1 .. Len(exports)
    /\ Export(e).op = "downloadAllSVG"
    /\ Export(e).stage = "render"
    /\ Export(e).waiting = {}
    /\ exports' = [exports EXCEPT ![e].stage = "zip",
                                  ![e].zip = ZipForEach({}, Export(e).svgString, 0)]
    /\ UNCHANGED << pageVars, displayVars, result, currentStep,
                    isDisplayRobotLabels, renders, alerted, lastError, saved,
                    exportFailedAt, gen >>
    /\ UNCHANGED cameFrom

\* saveAs(content, "tree.zip")
AllSave(e) ==
    /\ Idle
    /\ e \in 1 .. Len(exports)
    /\ Export(e).op = "downloadAllSVG"
    /\ Export(e).stage = "zip"
    /\ saved' = [kind |-> "zip", name |-> "tree.zip", files |-> Export(e).zip,
                 res |-> Export(e).res, labels |-> Export(e).labels,
                 step |-> Export(e).step, reordered |-> Export(e).reordered]
    /\ exports' = RemoveAt(exports, e)
    /\ UNCHANGED << pageVars, displayVars, result, currentStep,
                    isDisplayRobotLabels, renders, alerted, lastError,
                    exportFailedAt, gen >>
    /\ UNCHANGED cameFrom

(* ----------------------------- specifications -------------------------- *)
\* the responses of the engine in the navigation specification
NavResponses == { Raw(TRUE, TraceA), Raw(TRUE, TraceC), Raw(TRUE, BadEmpty),
                  Raw(FALSE, Undefined) }

NavNext ==
    \/ next
    \/ prev
    \/ toggleRobotLabels
    \/ DismissAlert

RenderNext ==
    \/ \E i \in 1 .. Len(renders) : RenderResolve(i)
    \/ \E i \in 1 .. Len(renders) : RenderReject(i)

ExportNext ==
    \/ downloadSVG
    \/ \E e \in 1 .. Len(exports) : DownloadResolve(e)
    \/ \E e \in 1 .. Len(exports) : DownloadReject(e)
    \/ downloadAllSVG
    \/ \E e \in 1 .. Len(exports) :
          \E index \in exports[e].waiting : AllRenderResolve(e, index)
    \/ \E e \in 1 .. Len(exports) :
          \E index \in exports[e].waiting : AllRenderReject(e, index)
    \/ \E e \in 1 .. Len(exports) : AllZip(e)
    \/ \E e \in 1 .. Len(exports) : AllSave(e)

\* run, navigation, display-mode toggle and the renders they issue
Next ==
    \/ InitLoadPyodide
    \/ RunStart
    \/ RunReject
    \/ \E raw \in NavResponses : RunResolve(raw)
    \/ NavNext
    \/ RenderNext

Spec == Init /\ [][Next]_vars

\* runs over every kind of engine response, well-formed and malformed
NextLoad ==
    \/ InitLoadPyodide
    \/ RunStart
    \/ RunReject
    \/ \E raw \in EngineResponses : RunResolve(raw)
    \/ next
    \/ DismissAlert
    \/ \E i \in 1 .. Len(renders) : RenderResolve(i)

SpecLoad == Init /\ [][NextLoad]_vars

\* the responses of the engine in the export specification
ExportResponses == { Raw(TRUE, TraceC), Raw(TRUE, TraceB) }

\* runs, the renders they issue, and the batch export
NextExport ==
    \/ InitLoadPyodide
    \/ RunStart
    \/ \E raw \in ExportResponses : RunResolve(raw)
    \/ \E i \in 1 .. Len(renders) : RenderResolve(i)
    \/ downloadAllSVG
    \/ \E e \in 1 .. Len(exports) :
          \E index \in exports[e].waiting : AllRenderResolve(e, index)
    \/ \E e \in 1 .. Len(exports) :
          \E index \in exports[e].waiting : AllRenderReject(e, index)
    \/ \E e \in 1 .. Len(exports) : AllZip(e)
    \/ \E e \in 1 .. Len(exports) : AllSave(e)

SpecExport == Init /\ [][NextExport]_vars

(* ------------------------ round-trip specification -------------------- *)
\* the engine answers with the three-step trace, which has an interior index
TripResponses == { Raw(TRUE, TraceB) }

NextTrip ==
    \/ InitLoadPyodide
    \/ RunStart
    \/ \E raw \in TripResponses : RunResolve(raw)
    \/ next
    \/ prev
    \/ DismissAlert
    \/ RenderNext

SpecTrip == Init /\ [][NextTrip]_vars

(* ----------------------- single-export specification ------------------- *)
\* the engine answers with the one-step or the two-step trace
SingleResponses == { Raw(TRUE, TraceC), Raw(TRUE, TraceA) }

\* runs, navigation and renders around downloadSVG()
NextSingle ==
    \/ InitLoadPyodide
    \/ RunStart
    \/ \E raw \in SingleResponses : RunResolve(raw)
    \/ next
    \/ prev
    \/ DismissAlert
    \/ \E i \in 1 .. Len(renders) : RenderResolve(i)
    \/ downloadSVG
    \/ \E e \in 1 .. Len(exports) : DownloadResolve(e)
    \/ \E e \in 1 .. Len(exports) : DownloadReject(e)

SpecSingle == Init /\ [][NextSingle]_vars

(* ---------------------- export-snapshot specification ------------------ *)
\* the engine answers with the two-step or the one-step trace
SnapshotResponses == { Raw(TRUE, TraceA), Raw(TRUE, TraceC) }

\* the state in which run() has installed the two-step trace and its render
\* has completed
InitShown ==
    /\ pyodide = TRUE
    /\ pendingRuns = 0
    /\ result = TraceA
    /\ currentStep = 0
    /\ isDisplayRobotLabels = FALSE
    /\ resultHidden = FALSE
    /\ onkeydown = TRUE
    /\ renders = << >>
    /\ treeContainer = << Artifact(MakeDotOf(TraceA, FALSE, 0)) >>
    /\ stepElement = String(1)
    /\ alerted = ""
    /\ lastError = NoError
    /\ exports = << >>
    /\ saved = NoFile
    /\ gen = 1
    /\ painted = [step |-> 0, overtaken |-> FALSE, old |-> FALSE]
    /\ exportFailedAt = NoStep
    /\ cameFrom = NoStep

\* runs and display-mode toggles around downloadAllSVG(); the layout engine
\* holds its answers to renderTree() and answers the export
NextSnapshot ==
    \/ RunStart
    \/ \E raw \in SnapshotResponses : RunResolve(raw)
    \/ toggleRobotLabels
    \/ downloadAllSVG
    \/ \E e \in 1 .. Len(exports) : \E index \in Export(e).waiting :
           AllRenderResolve(e, index)
    \/ \E e \in 1 .. Len(exports) : AllZip(e)
    \/ \E e \in 1 .. Len(exports) : AllSave(e)

SpecSnapshot == InitShown /\ [][NextSnapshot]_vars

(* ------------------- description-builder specification ----------------- *)
\* what one node can be in one step of a generated trace
NodeStates ==
    [traversed : BOOLEAN, nodeCase : 0 .. 3, robotsInNode : { << >>, << 1, 2 >> }]

\* a step in which node i + 1 of n is in state per[i + 1]
GeneratedStep(n, per) ==
    StepState([i \in 1 .. n |-> per[i].robotsInNode],
              [i \in 1 .. n |-> per[i].traversed],
              [i \in 1 .. n |-> per[i].nodeCase])

\* the last step of every generated trace: everything traversed and finished
FinalStep(n) ==
    StepState([i \in 1 .. n |-> << >>], [i \in 1 .. n |-> TRUE],
              [i \in 1 .. n |-> 1])

\* a path of n nodes
PathEdges(n) == [e \in 1 .. (n - 1) |-> << e - 1, e >>]

\* two-step traces over paths of up to MaxNodes nodes, any first step
GeneratedTraces ==
    UNION { { Trace(TRUE, n, PathEdges(n), << GeneratedStep(n, per), FinalStep(n) >>) :
                per \in [1 .. n -> NodeStates] } : n \in 1 .. MaxNodes }

\* the state in which run() has just installed a generated trace
InitDot ==
    /\ pyodide = TRUE
    /\ pendingRuns = 0
    /\ result \in GeneratedTraces
    /\ currentStep = 0
    /\ isDisplayRobotLabels = FALSE
    /\ resultHidden = FALSE
    /\ onkeydown = TRUE
    /\ renders = << [dot |-> MakeDotOf(result, FALSE, 0), step |-> 0,
                     gen |-> 1, overtaken |-> FALSE] >>
    /\ treeContainer = << >>
    /\ stepElement = ""
    /\ alerted = ""
    /\ lastError = NoError
    /\ exports = << >>
    /\ saved = NoFile
    /\ gen = 1
    /\ painted = NothingPainted
    /\ exportFailedAt = NoStep
    /\ cameFrom = NoStep

\* the commands that build descriptions; the layout engine holds its answers
NextDot ==
    \/ next
    \/ prev
    \/ toggleRobotLabels
    \/ DismissAlert

SpecDot == InitDot /\ [][NextDot]_vars

(* -------------------------------- claims ------------------------------- *)
\* the payload conforms to the response schema: tree present, steps non-empty,
\* every per-node array of length tree.n, every edge endpoint in [0, n)
WellFormed(res) ==
    /\ IsObject(res)
    /\ res.hasTree
    /\ Len(res.steps) >= 1
    /\ \A i \in 1 .. Len(res.steps) :
          /\ Len(res.steps[i].robotsInNode) = res.n
          /\ Len(res.steps[i].traversed) = res.n
          /\ Len(res.steps[i].nodeCase) = res.n
    /\ \A e \in 1 .. Len(res.edges) :
          /\ res.edges[e][1] \in 0 .. (res.n - 1)
          /\ res.edges[e][2] \in 0 .. (res.n - 1)

WellFormedResponse(raw) == raw.parses /\ WellFormed(raw.value)

\* C1: within one trace, once no render is in flight the tree container does
\* not show the artifact of another step than the cursor's, written by a
\* render that completed after a later-issued render.
C1_NoStaleOverwrite ==
    ~(/\ renders = << >>
      /\ painted.overtaken
      /\ ~painted.old
      /\ painted.step # currentStep)

\* C2: a render issued while an earlier trace was current never writes the
\* tree container once a later run has replaced `result`.
C2_OldTraceRenderDiscarded == ~painted.old

\* C3: whenever `result` holds a parsed trace, currentStep is an index of its
\* steps: 0 <= currentStep <= L-1.
C3_CursorInRange ==
    IsObject(result) =>
        (IsNum(currentStep) /\ currentStep \in 0 .. (StepsLength(result) - 1))

AtIndex == IsObject(result) /\ currentStep \in 0 .. (StepsLength(result) - 1)

\* C4: at an index of the loaded trace, prev() at 0 and next() at L-1 leave the
\* index, issue no render and raise their notice; anywhere else next() adds
\* exactly 1 and prev() subtracts exactly 1 and no notice is raised.
C4_ReflectingBoundaries ==
    [][ AtIndex =>
          /\ (prev /\ currentStep = 0) =>
                (/\ currentStep' = 0
                 /\ renders' = renders
                 /\ alerted' = "This is the first step!")
          /\ (next /\ currentStep = StepsLength(result) - 1) =>
                (/\ currentStep' = currentStep
                 /\ renders' = renders
                 /\ alerted' = "Exploration is finished!")
          /\ (prev /\ currentStep # 0) =>
                (currentStep' = currentStep - 1 /\ alerted' = "")
          /\ (next /\ currentStep # StepsLength(result) - 1) =>
                (currentStep' = currentStep + 1 /\ alerted' = "") ]_vars

C4_Witness ==
    /\ IsObject(result)
    /\ StepsLength(result) = 2
    /\ currentStep = 1
    /\ alerted = "Exploration is finished!"
    /\ Len(renders) = 1
    /\ renders[1].step = 1

\* C5: a run whose engine response is malformed ends in an error and leaves
\* `result` and `currentStep` as they were.
C5_MalformedRejected ==
    [][ \A raw \in EngineResponses :
          (~WellFormedResponse(raw) /\ RunResolve(raw)) =>
              (/\ result' = result
               /\ currentStep' = currentStep
               /\ lastError'.op = "run") ]_vars

C9_AtomicReplacement ==
    [][ /\ (gen' # gen /\ IsObject(result')) => currentStep' = 0
        /\ (gen' = gen) =>
              (/\ result' = result
               /\ currentStep' \in {currentStep, currentStep + 1, currentStep - 1}) ]_vars

C9_Witness ==
    /\ gen = 2
    /\ IsObject(result)
    /\ currentStep = 0
    /\ \E i \in 1 .. Len(renders) : renders[i].gen = 1 /\ renders[i].step = 1

\* C6: an archive saved by downloadAllSVG for a trace of L steps holds exactly
\* L files, named step-1.svg .. step-L.svg, and step-(i+1).svg is the
\* rendering of step index i, whatever the completion order of the renders.
C6_OrderedBatchExport ==
    saved.kind = "zip" =>
        LET L == StepsLength(saved.res)
        IN  /\ Cardinality(saved.files) = L
            /\ \A i \in 0 .. (L - 1) :
                  [name |-> "step-" \o ToString(i + 1) \o ".svg",
                   data |-> Serialize(Artifact(
                                MakeDotOf(saved.res, saved.labels, i)))]
                      \in saved.files

\* an archive of a three-step trace whose renders completed out of step order
C6_Witness ==
    /\ saved.kind = "zip"
    /\ StepsLength(saved.res) = 3
    /\ saved.reordered

\* C7: when the render of a step fails during downloadAllSVG, the error that
\* surfaces names the index of the failing step.
C7_FailingStepReported ==
    (exportFailedAt # NoStep /\ lastError.op = "downloadAllSVG") =>
        lastError.index = exportFailedAt

\* C10: in every description makeDot builds, an untraversed node is black and
\* dashed whatever its nodeCase, a traversed node is solid and has the colour of
\* its nodeCase (1 green, 2 red, 3 blue), and only traversed nodes carry one of
\* these colours.
C10_TraversedRule ==
    IsObject(result) =>
        \A step \in 0 .. (StepsLength(result) - 1) : \A labels \in BOOLEAN :
            ~MakeDotThrows(result, labels, step) =>
                \A node \in 0 .. (result.n - 1) :
                    LET stmt == MakeDotOf(result, labels, step).nodes[node + 1]
                        st == result.steps[step + 1]
                        trav == node < Len(st.traversed) /\ st.traversed[node + 1]
                        nc == IF node < Len(st.nodeCase) THEN st.nodeCase[node + 1]
                                                         ELSE 0
                    IN  /\ stmt.id = node
                        /\ ~trav => (stmt.color = "black" /\ stmt.style = "dashed")
                        /\ trav => stmt.style = "solid"
                        /\ (trav /\ nc = 1) => stmt.color = "green"
                        /\ (trav /\ nc = 2) => stmt.color = "red"
                        /\ (trav /\ nc = 3) => stmt.color = "blue"
                        /\ stmt.color \in {"green", "red", "blue"} => trav

\* a description in flight, built in label mode, that shows as black and
\* dashed a node whose nodeCase is 3
C10_Witness ==
    /\ IsObject(result)
    /\ isDisplayRobotLabels
    /\ \E i \in 1 .. Len(renders) : \E node \in 1 .. result.n :
          /\ renders[i].dot = MakeDotOf(result, TRUE, renders[i].step)
          /\ result.steps[renders[i].step + 1].nodeCase[node] = 3
          /\ ~result.steps[renders[i].step + 1].traversed[node]
          /\ renders[i].dot.nodes[node].color = "black"
          /\ renders[i].dot.nodes[node].style = "dashed"

\* C11: for the installed trace and every step, the description built with robot
\* ids displayed and the one built with robot counts have the same node
\* statements up to the label text (same ids in the same order, same colour,
\* same style, same font size) and the same edge statements; and a step that
\* flips the display mode leaves the trace and the cursor as they were.
C11_ToggleIsPresentationOnly ==
    [][ /\ IsObject(result) =>
              \A step \in 0 .. (StepsLength(result) - 1) :
                  LET counts == MakeDotOf(result, FALSE, step)
                      ids == MakeDotOf(result, TRUE, step)
                  IN  /\ Len(counts.nodes) = Len(ids.nodes)
                      /\ \A node \in 1 .. Len(counts.nodes) :
                            [counts.nodes[node] EXCEPT !.label = ""] =
                                [ids.nodes[node] EXCEPT !.label = ""]
                      /\ counts.edges = ids.edges
        /\ (isDisplayRobotLabels' # isDisplayRobotLabels) =>
              (result' = result /\ currentStep' = currentStep) ]_vars

\* the mode has been toggled to robot ids with the count-mode render of the same
\* step still in flight, and the two descriptions differ (in a label)
C11_Witness ==
    /\ isDisplayRobotLabels
    /\ Len(renders) = 2
    /\ renders[1].step = renders[2].step
    /\ renders[1].dot = MakeDotOf(result, FALSE, currentStep)
    /\ renders[2].dot = MakeDotOf(result, TRUE, currentStep)
    /\ renders[1].dot # renders[2].dot
    /\ \E node \in 1 .. result.n : ~result.steps[currentStep + 1].traversed[node]

\* C14: for the installed trace, every step and both display modes, the
\* description has exactly tree.n node statements, the i-th being that of node
\* id i - 1, and exactly one edge statement per tree edge, joining that edge's
\* endpoints; the edge statements are the same for every step.
C14_StatementCounts ==
    IsObject(result) =>
        \A step \in 0 .. (StepsLength(result) - 1) : \A labels \in BOOLEAN :
            ~MakeDotThrows(result, labels, step) =>
                LET dot == MakeDotOf(result, labels, step)
                IN  /\ Len(dot.nodes) = result.n
                    /\ \A node \in 0 .. (result.n - 1) : dot.nodes[node + 1].id = node
                    /\ Len(dot.edges) = Len(result.edges)
                    /\ \A e \in 1 .. Len(result.edges) :
                          /\ dot.edges[e].from = result.edges[e][1]
                          /\ dot.edges[e].to = result.edges[e][2]
                    /\ \A other \in 0 .. (StepsLength(result) - 1) :
                          ~MakeDotThrows(result, labels, other) =>
                              MakeDotOf(result, labels, other).edges = dot.edges

\* descriptions of two different steps of a two-node tree are in flight, the
\* first of a step in which a node is not traversed yet; both have two node
\* statements and the one edge statement
C14_Witness ==
    /\ IsObject(result)
    /\ result.n = 2
    /\ Len(renders) = 2
    /\ renders[1].step = 0
    /\ renders[2].step = 1
    /\ ~result.steps[1].traversed[2]
    /\ Len(renders[1].dot.nodes) = 2
    /\ Len(renders[1].dot.edges) = 1
    /\ renders[2].dot.edges = renders[1].dot.edges

\* C13: when the last navigation command was a next() that moved the cursor from
\* index i (so 0 <= i < L - 1) and no run has been installed since, prev() puts
\* the cursor back at i, whether the render next() issued is still in flight,
\* has completed or has failed.
C13_CursorRoundTrip ==
    [][ /\ (cameFrom' # NoStep) =>
              (IsObject(result') /\ cameFrom' \in 0 .. (StepsLength(result') - 2))
        /\ (prev /\ cameFrom # NoStep) => currentStep' = cameFrom ]_vars

\* next() from the interior index 1 followed by prev(): the cursor is back at 1
\* while the render of step 2 that next() issued is still in flight, ahead of
\* the one prev() issued
C13_Witness ==
    /\ IsObject(result)
    /\ StepsLength(result) = 3
    /\ currentStep = 1
    /\ cameFrom = NoStep
    /\ Len(renders) = 2
    /\ renders[1].step = 2 /\ renders[1].gen = gen
    /\ renders[2].step = 1 /\ renders[2].gen = gen

\* C12: the tree container never holds more than one artifact, and a render
\* that completes leaves in it exactly its own artifact, whatever was shown
\* before and in whatever order the renders complete.
C12_ContainerReplaced ==
    [][ /\ Len(treeContainer) <= 1
        /\ Len(treeContainer') <= 1
        /\ \A i \in 1 .. Len(renders) :
              RenderResolve(i) => treeContainer' = << Artifact(renders[i].dot) >> ]_vars

\* two renders have completed, the earlier-issued one last, and the container
\* holds one artifact
C12_Witness ==
    /\ painted.overtaken
    /\ Len(treeContainer) = 1
    /\ renders = << >>

\* C15: a file saved by downloadSVG() is the single file tree.svg, and its
\* content is the serialised rendering of the step that was current (in the
\* trace and display mode that were current) when the command was issued; no
\* step of downloadSVG(), issue, completion or failure, changes the cursor,
\* the trace, the display mode or the tree container.
C15_SingleStepExport ==
    [][ /\ (saved'.kind = "svg") =>
              /\ saved'.name = "tree.svg"
              /\ Cardinality(saved'.files) = 1
              /\ saved'.files =
                    { [name |-> "tree.svg",
                       data |-> Serialize(Artifact(
                           MakeDotOf(saved'.res, saved'.labels, saved'.step)))] }
        /\ (exports' # exports \/ saved' # saved) =>
              /\ currentStep' = currentStep
              /\ result' = result
              /\ isDisplayRobotLabels' = isDisplayRobotLabels
              /\ treeContainer' = treeContainer ]_vars

\* tree.svg has been saved with the rendering of step 0 of the installed
\* trace; the cursor has moved on to step 1, whose render is still in flight
C15_Witness ==
    /\ saved.kind = "svg"
    /\ saved.res = result
    /\ saved.step = 0
    /\ currentStep = 1
    /\ exports = << >>
    /\ Len(renders) = 1
    /\ renders[1].step = 1

\* the cursor of a viewer that completes every render before it accepts the
\* next command: next and prev on a trace of L steps
SeqNext(L, i) == IF i < L - 1 THEN i + 1 ELSE i
SeqPrev(i) == IF i > 0 THEN i - 1 ELSE i

\* C16: with a trace installed, next() and prev() move the cursor
\* at the moment they are processed exactly as they would with no render in
\* flight, however many renders are in flight; and the completion or failure
\* of a render never moves the cursor. So a command sequence leaves the cursor
\* where the same sequence would with every render completed in between.
C16_CursorAtCommandTime ==
    [][ /\ (IsObject(result) /\ IsNum(currentStep) /\ next) =>
              currentStep' = SeqNext(StepsLength(result), currentStep)
        /\ (IsObject(result) /\ IsNum(currentStep) /\ prev) =>
              currentStep' = SeqPrev(currentStep)
        /\ (Len(renders') < Len(renders)) => currentStep' = currentStep
        /\ (currentStep' # currentStep /\ gen' = gen) =>
              (Len(renders') = Len(renders) + 1 \/ lastError' # lastError) ]_vars

\* next() then prev() were processed while no render completed in between:
\* both their renders are in flight and the cursor is back at 0, while the
\* container still shows what was rendered before the two commands
C16_Witness ==
    /\ AtIndex
    /\ currentStep = 0
    /\ Len(renders) = 2
    /\ renders[1].step = 1 /\ renders[1].gen = gen
    /\ renders[2].step = 0 /\ renders[2].gen = gen
    /\ painted.step = 0
    /\ treeContainer # << >>

\* C17: once a render has completed and none is in flight any more, none having
\* failed, the indicator shows currentStep + 1 for the cursor of the installed
\* trace, in whatever order the renders completed. (No render fails in the
\* specification this is checked under.)
C17_IndicatorConverges ==
    (renders = << >> /\ treeContainer # << >> /\ IsObject(result)) =>
        stepElement = String(currentStep + 1)

\* the files of an archive built from trace res in display mode labels
ArchiveOf(res, labels) ==
    { [name |-> "step-" \o ToString(i + 1) \o ".svg",
       data |-> Serialize(Artifact(MakeDotOf(res, labels, i)))] :
          i \in 0 .. (StepsLength(res) - 1) }

\* C18: the descriptions a batch export holds, the archive it fills and the
\* archive it saves are those of one trace and one display mode, the ones
\* current when downloadAllSVG() was invoked, whatever run completes or toggle
\* is made while its renders are in flight; and no step of the export changes
\* the cursor or the tree container.
C18_ExportSnapshot ==
    [][ (exports' # exports \/ saved' # saved) =>
          /\ \A e \in 1 .. Len(exports') :
                LET x == exports'[e]
                IN  /\ x.dots = [i \in 1 .. StepsLength(x.res) |->
                                     MakeDotOf(x.res, x.labels, i - 1)]
                    /\ (x.stage = "zip") => x.zip = ArchiveOf(x.res, x.labels)
          /\ (saved'.kind = "zip") =>
                saved'.files = ArchiveOf(saved'.res, saved'.labels)
          /\ (Len(exports') > Len(exports)) =>
                /\ exports'[Len(exports')].res = result
                /\ exports'[Len(exports')].labels = isDisplayRobotLabels
          /\ currentStep' = currentStep
          /\ treeContainer' = treeContainer ]_vars

\* an export of the two-step trace has filled its archive with two files
\* although, since it was invoked, the display mode has been toggled and a run
\* has installed another trace
C18_Witness ==
    /\ Len(exports) = 1
    /\ exports[1].stage = "zip"
    /\ Cardinality(exports[1].zip) = 2
    /\ exports[1].labels # isDisplayRobotLabels
    /\ exports[1].res # result

\* C19: while result is undefined, a next() or prev() step changes nothing at
\* all, and no step other than the completion of a run moves the cursor,
\* issues a render or raises a notice; while the scripting runtime is not
\* initialised, a run() step changes nothing and no run is started.
C19_NoTraceNoOp ==
    [][ /\ (result = Undefined /\ (next \/ prev)) => UNCHANGED vars
        /\ (result = Undefined /\ gen' = gen) =>
              /\ currentStep' = currentStep
              /\ renders' = renders
              /\ alerted' = ""
              /\ displayVars' = displayVars
        /\ (~pyodide /\ RunStart) => UNCHANGED vars
        /\ ~pyodide => (pendingRuns' = 0 /\ result' = Undefined) ]_vars

\* no trace is installed although the runtime is initialised, a run is under
\* way and a command (the toggle) has been processed: the cursor is unset,
\* nothing is rendered or in flight and no notice is open
C19_Witness ==
    /\ result = Undefined
    /\ pyodide
    /\ pendingRuns > 0
    /\ isDisplayRobotLabels
    /\ currentStep = NoStep
    /\ renders = << >>
    /\ treeContainer = << >>
    /\ alerted = ""

====
